---------------------------- MODULE Spec2Model ----------------------------
(***************************************************************************)
(* The knowledge-base component of spider-knowledge-base: the search,       *)
(* title/snippet extraction and export code of the KnowledgeBase React      *)
(* component, over the page store of "@/lib/storage".                       *)
(*                                                                         *)
(* JavaScript strings are TLA+ strings; only Len, \o and SubSeq are used on *)
(* them, so every String method and every regular expression of the source *)
(* is spelled out below as an operator on characters.                      *)
(***************************************************************************)
EXTENDS Integers, Sequences, FiniteSets, TLC

(***************************************************************************)
(* Bounds of the model.                                                     *)
(***************************************************************************)
\* pages per domain in the largest drawn corpus (two domains are scanned)
MaxBulk == 26
\* pages handed to one export
MaxExport == 2
\* asynchronous operations that may be in flight at once
MaxTasks == 2
\* crawl saves in a run (the store's clock stops there)
MaxTime == 2

(***************************************************************************)
(* Program constants.                                                       *)
(***************************************************************************)
\* results.slice(0, 50)
ResultCap == 50
\* text.slice(start, start + 200)
SnippetLen == 200
\* Math.max(0, idx - 80)
SnippetLead == 80
\* text.slice(0, 2000) of the markdown export
MarkdownLen == 2000

(***************************************************************************)
(* JavaScript String primitives.                                            *)
(***************************************************************************)
Min(S) == CHOOSE x \in S : \A y \in S : x <= y

Max(S) == CHOOSE x \in S : \A y \in S : x >= y

\* s[i - 1]: the i-th character, 1-based
Char(s, i) == SubSeq(s, i, i)

\* String.prototype.slice(a, b) for 0 <= a, 0 <= b (0-based, end exclusive)
Slice(s, a, b) ==
  LET e == IF b < Len(s) THEN b ELSE Len(s)
  IN IF a < e THEN SubSeq(s, a + 1, e) ELSE ""

UpperAlpha == "ABCDEFGHIJKLMNOPQRSTUVWXYZ"

LowerAlpha == "abcdefghijklmnopqrstuvwxyz"

\* the lower-case letter of each upper-case letter
UpperToLower ==
  [c \in {Char(UpperAlpha, i) : i \in 1..Len(UpperAlpha)} |->
     Char(LowerAlpha, CHOOSE i \in 1..Len(UpperAlpha) : Char(UpperAlpha, i) = c)]

ToLowerChar(c) == IF c \in DOMAIN UpperToLower THEN UpperToLower[c] ELSE c

\* String.prototype.toLowerCase
RECURSIVE toLowerCase(_)
toLowerCase(s) ==
  IF Len(s) = 0 THEN ""
  ELSE IF Len(s) = 1 THEN ToLowerChar(s)
  ELSE LET h == Len(s) \div 2
       IN toLowerCase(SubSeq(s, 1, h)) \o toLowerCase(SubSeq(s, h + 1, Len(s)))

\* the regular expression class \s
IsWs(c) == c \in {" ", "\n", "\t"}

\* the 1-based positions of s holding whitespace / holding none
WsAt(s) == {i \in 1..Len(s) : IsWs(Char(s, i))}

NonWsAt(s) == {i \in 1..Len(s) : ~IsWs(Char(s, i))}

\* String.prototype.trim
trim(s) ==
  IF NonWsAt(s) = {} THEN "" ELSE SubSeq(s, Min(NonWsAt(s)), Max(NonWsAt(s)))

\* String.prototype.indexOf(t): 0-based index of the first occurrence, or -1
indexOf(s, t) ==
  LET at == {i \in 0..(Len(s) - Len(t)) : SubSeq(s, i + 1, i + Len(t)) = t}
  IN IF at = {} THEN -1 ELSE Min(at)

\* String.prototype.includes(t)
includes(s, t) ==
  \E i \in 0..(Len(s) - Len(t)) : SubSeq(s, i + 1, i + Len(t)) = t

\* String.prototype.split(/\s+/): the pieces between the maximal whitespace
\* runs; a leading or trailing run leaves an empty piece at that end
RECURSIVE splitWs(_)
splitWs(s) ==
  IF WsAt(s) = {} THEN <<s>>
  ELSE LET i == Min(WsAt(s))
           after == {j \in NonWsAt(s) : j > i}
           j == IF after = {} THEN Len(s) + 1 ELSE Min(after)
       IN <<SubSeq(s, 1, i - 1)>> \o splitWs(SubSeq(s, j, Len(s)))

\* String.prototype.replace(/\s+/g, " ")
RECURSIVE collapseWs(_)
collapseWs(s) ==
  IF WsAt(s) = {} THEN s
  ELSE LET i == Min(WsAt(s))
           after == {j \in NonWsAt(s) : j > i}
           j == IF after = {} THEN Len(s) + 1 ELSE Min(after)
       IN SubSeq(s, 1, i - 1) \o " " \o collapseWs(SubSeq(s, j, Len(s)))

\* the leftmost match of /<[^>]+>/ in s as <<first, last>> (1-based), or <<>>:
\* a "<", at least one character that is not ">", then the next ">"
TagMatch(s) ==
  LET starts == {i \in 1..Len(s) :
                   /\ Char(s, i) = "<"
                   /\ i + 2 <= Len(s)
                   /\ Char(s, i + 1) # ">"
                   /\ \E j \in (i + 2)..Len(s) : Char(s, j) = ">"}
  IN IF starts = {} THEN <<>>
     ELSE LET i == Min(starts)
          IN <<i, Min({j \in (i + 2)..Len(s) : Char(s, j) = ">"})>>

\* String.prototype.replace(/<[^>]+>/g, " ")
RECURSIVE replaceTags(_)
replaceTags(s) ==
  LET m == TagMatch(s)
  IN IF m = <<>> THEN s
     ELSE SubSeq(s, 1, m[1] - 1) \o " " \o replaceTags(SubSeq(s, m[2] + 1, Len(s)))

(***************************************************************************)
(* The page store, "@/lib/storage": pages per domain, in insertion order.   *)
(***************************************************************************)
\* the domains of the model, in the order getSavedDomains lists them
DomainNames == <<"a.com", "b.org">>

DomainSet == {DomainNames[i] : i \in DOMAIN DomainNames}

\* a StoredPage; contentSize is the length of content at write time
StoredPage(url, domain, content, status, timestamp) ==
  [url |-> url, domain |-> domain, content |-> content, status |-> status,
   contentSize |-> Len(content), timestamp |-> timestamp]

EmptyStore == [d \in DomainSet |-> <<>>]

getPagesByDomain(st, d) == IF d \in DOMAIN st THEN st[d] ELSE <<>>

RECURSIVE SumContentSize(_)
SumContentSize(pages) ==
  IF pages = <<>> THEN 0
  ELSE pages[1].contentSize + SumContentSize(Tail(pages))

DomainInfo(st, d) ==
  [domain |-> d, pageCount |-> Len(st[d]), totalSize |-> SumContentSize(st[d])]

\* one DomainInfo per domain that has at least one page
getSavedDomains(st) ==
  LET present == SelectSeq(DomainNames, LAMBDA d : st[d] # <<>>)
  IN [i \in DOMAIN present |-> DomainInfo(st, present[i])]

\* insert, or replace in place the page of the same (domain, url)
upsertPage(st, page) ==
  LET old == st[page.domain]
      at == {i \in DOMAIN old : old[i].url = page.url}
  IN [st EXCEPT ![page.domain] =
        IF at = {} THEN Append(old, page)
        ELSE [i \in DOMAIN old |-> IF i \in at THEN page ELSE old[i]]]

\* a slip: the pages of every domain removed
clearDomainAndOthers(st, d) == [e \in DOMAIN st |-> <<>>]

clearDomain(st, d) == IF d \in DOMAIN st THEN [st EXCEPT ![d] = <<>>] ELSE st

clearAll(st) == EmptyStore

(***************************************************************************)
(* search: scoring, ranking and the cap.  relevance is the quotient         *)
(* matches / lowerQuery.length, kept as the pair of its operands.           *)
(***************************************************************************)
\* searchQuery.toLowerCase().split(/\s+/)
LowerQuery(q) == splitWs(toLowerCase(q))

\* lowerQuery.filter((term) => text.includes(term)).length
Matches(lowerQuery, text) ==
  Cardinality({i \in DOMAIN lowerQuery : includes(text, lowerQuery[i])})

\* a slip: dividing by the number of different terms
RelevanceOverDistinct(matches, lowerQuery) ==
  [num |-> matches,
   den |-> Cardinality({lowerQuery[i] : i \in DOMAIN lowerQuery})]

\* matches / lowerQuery.length
Relevance(matches, lowerQuery) == [num |-> matches, den |-> Len(lowerQuery)]

\* { ...page, relevance }
WithRelevance(page, rel) == [relevance |-> rel] @@ page

\* the body of "for (const page of pages)": results after the pushes
ScanPages(results, pages, lowerQuery) ==
  LET m(p) == Matches(lowerQuery, toLowerCase(p.content))
      hits == SelectSeq(pages, LAMBDA p : m(p) > 0)
  IN results \o [i \in DOMAIN hits |->
                   WithRelevance(hits[i], Relevance(m(hits[i]), lowerQuery))]

\* the sign of the comparator (a, b) => b.relevance - a.relevance
CompareRelevance(a, b) ==
  b.relevance.num * a.relevance.den - a.relevance.num * b.relevance.den

\* a slip: an unstable sort, results of equal relevance come out reversed
TopRankedUnstable(results) ==
  LET top == CHOOSE i \in DOMAIN results :
               \A j \in DOMAIN results : CompareRelevance(results[i], results[j]) <= 0
      tied == SelectSeq(results, LAMBDA r : CompareRelevance(results[top], r) = 0)
  IN [i \in DOMAIN tied |-> tied[Len(tied) + 1 - i]]

\* the results no other result is ranked ahead of, in their order in results
TopRanked(results) ==
  LET top == CHOOSE i \in DOMAIN results :
               \A j \in DOMAIN results : CompareRelevance(results[i], results[j]) <= 0
  IN SelectSeq(results, LAMBDA r : CompareRelevance(results[top], r) = 0)

\* results.sort((a, b) => b.relevance - a.relevance): Array.prototype.sort is
\* stable, so the results of the highest relevance come first, in the order
\* they had, followed by the others sorted the same way
RECURSIVE SortResults(_)
SortResults(results) ==
  IF results = <<>> THEN <<>>
  ELSE LET top == TopRanked(results)
           rest == SelectSeq(results, LAMBDA r : CompareRelevance(top[1], r) # 0)
       IN top \o SortResults(rest)

\* results.slice(0, 50)
CapResults(results) ==
  IF Len(results) <= ResultCap THEN results ELSE SubSeq(results, 1, ResultCap)

\* a slip: the cap applied before the ranking
RankedResultsCapFirst(results) == SortResults(CapResults(results))

\* what search hands to setSearchResults
RankedResults(results) == CapResults(SortResults(results))

(***************************************************************************)
(* getSnippet and getTitle.  A regular expression match is the record       *)
(* [found, group]; a call that may throw returns [threw, value].            *)
(***************************************************************************)
NoMatch == [found |-> FALSE, group |-> ""]

Match(group) == [found |-> TRUE, group |-> group]

Returned(v) == [threw |-> FALSE, value |-> v]

Threw(e) == [threw |-> TRUE, value |-> e]

\* the literal lit (given in lower case) stands at position i of s, under /i
LiteralAt(s, i, lit) ==
  /\ i >= 1
  /\ i + Len(lit) - 1 <= Len(s)
  /\ toLowerCase(SubSeq(s, i, i + Len(lit) - 1)) = lit

\* the first position >= from of s holding a character of cs, or 0
FirstOf(s, cs, from) ==
  LET at == {i \in from..Len(s) : Char(s, i) \in cs}
  IN IF at = {} THEN 0 ELSE Min(at)

\* /<title[^>]*>([^<]*)<\/title>/i tried at position p: "<title", then up to
\* the next ">", then up to the next "<", which must open "</title>"
TitleTagAt(s, p) ==
  IF ~LiteralAt(s, p, "<title") THEN NoMatch
  ELSE LET q == FirstOf(s, {">"}, p + 6)
           r == IF q = 0 THEN 0 ELSE FirstOf(s, {"<"}, q + 1)
       IN IF q # 0 /\ r # 0 /\ LiteralAt(s, r, "</title>")
          THEN Match(SubSeq(s, q + 1, r - 1))
          ELSE NoMatch

\* content.match(/<title[^>]*>([^<]*)<\/title>/i): the leftmost match
TitleTagMatch(s) ==
  LET at == {p \in 1..Len(s) : TitleTagAt(s, p).found}
  IN IF at = {} THEN NoMatch ELSE TitleTagAt(s, Min(at))

\* /^#\s+(.+)/m tried at position p: p starts a line and holds "#"; \s+ takes
\* the longest run of whitespace that leaves (.+) a character other than a
\* line break; the group runs to the end of that line
HeadingAt(s, p) ==
  IF ~(/\ p <= Len(s)
       /\ Char(s, p) = "#"
       /\ p = 1 \/ Char(s, p - 1) = "\n")
  THEN NoMatch
  ELSE LET ks == {k \in 1..(Len(s) - p - 1) :
                    /\ \A i \in (p + 1)..(p + k) : IsWs(Char(s, i))
                    /\ Char(s, p + k + 1) # "\n"}
       IN IF ks = {} THEN NoMatch
          ELSE LET g == p + Max(ks) + 1
                   nl == FirstOf(s, {"\n"}, g)
               IN Match(SubSeq(s, g, IF nl = 0 THEN Len(s) ELSE nl - 1))

\* content.match(/^#\s+(.+)/m): the leftmost match, at the start of any line
HeadingMatch(s) ==
  LET at == {p \in 1..Len(s) : HeadingAt(s, p).found}
  IN IF at = {} THEN NoMatch ELSE HeadingAt(s, Min(at))

SchemeChars == "abcdefghijklmnopqrstuvwxyz0123456789+-."

IsSchemeChar(c) == \E i \in 1..Len(SchemeChars) : Char(SchemeChars, i) = c

IsAlpha(c) == \E i \in 1..Len(LowerAlpha) : Char(LowerAlpha, i) = c

\* new URL(url).pathname for URLs of letters, digits and the delimiters
\* : / ? # . - (nothing that is percent-encoded or normalised away).  Without
\* a scheme the constructor throws a TypeError; an http(s) URL needs a host
\* and has the path "/" when none is written.
URLPathname(url) ==
  LET u == trim(url)
      colon == FirstOf(u, {":"}, 1)
      scheme == toLowerCase(SubSeq(u, 1, colon - 1))
      hasScheme == /\ colon > 1
                   /\ IsAlpha(Char(scheme, 1))
                   /\ \A i \in 1..Len(scheme) : IsSchemeChar(Char(scheme, i))
      rest == SubSeq(u, colon + 1, Len(u))
      special == scheme \in {"http", "https"}
      nonSlash == {i \in 1..Len(rest) : Char(rest, i) # "/"}
      \* where the authority starts: behind every slash of a special URL,
      \* behind "//" otherwise (0: no authority)
      auth == IF special
              THEN (IF nonSlash = {} THEN Len(rest) + 1 ELSE Min(nonSlash))
              ELSE IF LiteralAt(rest, 1, "//") THEN 3 ELSE 0
      authEnd == IF auth = 0 THEN 0
                 ELSE LET e == FirstOf(rest, {"/", "?", "#"}, auth)
                      IN IF e = 0 THEN Len(rest) + 1 ELSE e
      pathStart == IF auth = 0 THEN 1 ELSE authEnd
      q == FirstOf(rest, {"?", "#"}, pathStart)
      path == SubSeq(rest, pathStart, IF q = 0 THEN Len(rest) ELSE q - 1)
  IN IF ~hasScheme THEN Threw("TypeError: Invalid URL")
     ELSE IF special /\ authEnd = auth THEN Threw("TypeError: Invalid URL")
     ELSE IF special /\ path = "" THEN Returned("/")
     ELSE Returned(path)

\* content.match(/<title.../i) || content.match(/^#\s+(.+)/m)
TitleMatch(content) ==
  IF TitleTagMatch(content).found THEN TitleTagMatch(content)
  ELSE HeadingMatch(content)

\* match?.[1]?.trim() || new URL(url).pathname
getTitle(content, url) ==
  LET match == TitleMatch(content)
      text == IF match.found THEN trim(match.group) ELSE ""
  IN IF text # "" THEN Returned(text) ELSE URLPathname(url)

\* content.replace(/<[^>]+>/g, " ").replace(/\s+/g, " ")
PlainText(content) == collapseWs(replaceTags(content))

\* query.toLowerCase().split(/\s+/)[0]
FirstTerm(query) == LowerQuery(query)[1]

getSnippet(content, query) ==
  LET text == PlainText(content)
      idx == indexOf(toLowerCase(text), FirstTerm(query))
      start == IF idx - SnippetLead > 0 THEN idx - SnippetLead ELSE 0
  IN IF idx = -1 THEN Returned(Slice(text, 0, SnippetLen) \o "...")
     ELSE Returned((IF start > 0 THEN "..." ELSE "")
                   \o Slice(text, start, start + SnippetLen) \o "...")

(***************************************************************************)
(* exportPages, format "json": JSON.stringify(data, null, 2) written out as *)
(* text.                                                                    *)
(***************************************************************************)
\* decimal digits of a natural number: String(n)
RECURSIVE NatString(_)
NatString(n) ==
  IF n < 10 THEN Char("0123456789", n + 1)
  ELSE NatString(n \div 10) \o Char("0123456789", (n % 10) + 1)

\* the characters JSON.stringify escapes in a string, with their escapes
JSONEscape(c) ==
  CASE c = "\"" -> "\\\""
    [] c = "\\" -> "\\\\"
    [] c = "\n" -> "\\n"
    [] c = "\t" -> "\\t"

\* JSON.stringify of a string
RECURSIVE JSONQuoteBody(_)
JSONQuoteBody(s) ==
  LET k == FirstOf(s, {"\"", "\\", "\n", "\t"}, 1)
  IN IF k = 0 THEN s
     ELSE SubSeq(s, 1, k - 1) \o JSONEscape(Char(s, k))
          \o JSONQuoteBody(SubSeq(s, k + 1, Len(s)))

JSONQuote(s) == "\"" \o JSONQuoteBody(s) \o "\""

\* a slip: the derived contentSize exported as well
ExportRecordWithSize(p) ==
  [url |-> p.url, content |-> p.content, status |-> p.status,
   domain |-> p.domain, timestamp |-> p.timestamp, contentSize |-> p.contentSize]

\* (p) => ({ url: p.url, content: p.content, status: p.status,
\*           domain: p.domain, timestamp: p.timestamp })
ExportRecord(p) ==
  [url |-> p.url, content |-> p.content, status |-> p.status,
   domain |-> p.domain, timestamp |-> p.timestamp]

\* the keys of an exported object in the order stringify writes them (the
\* order of the object literal, then anything else), and which hold numbers
ExportKeyOrder == <<"url", "content", "status", "domain", "timestamp", "contentSize">>

NumberKeys == {"status", "timestamp", "contentSize"}

JSONMember(obj, key) ==
  JSONQuote(key) \o ": "
    \o (IF key \in NumberKeys THEN NatString(obj[key]) ELSE JSONQuote(obj[key]))

RECURSIVE JoinLines(_, _)
JoinLines(items, sep) ==
  IF items = <<>> THEN ""
  ELSE IF Len(items) = 1 THEN items[1]
  ELSE items[1] \o sep \o JoinLines(Tail(items), sep)

\* JSON.stringify of one object of the array, at two spaces of indentation
JSONObject(obj) ==
  LET keys == SelectSeq(ExportKeyOrder, LAMBDA k : k \in DOMAIN obj)
  IN "{\n    "
     \o JoinLines([i \in DOMAIN keys |-> JSONMember(obj, keys[i])], ",\n    ")
     \o "\n  }"

\* JSON.stringify(data, null, 2)
JSONStringify(data) ==
  IF data = <<>> THEN "[]"
  ELSE "[\n  "
       \o JoinLines([i \in DOMAIN data |-> JSONObject(data[i])], ",\n  ")
       \o "\n]"

\* downloadBlob(content, filename, mimeType): the artifact handed to the browser
downloadBlob(content, filename, mimeType) ==
  [content |-> content, filename |-> filename, mimeType |-> mimeType]

(***************************************************************************)
(* exportPages, formats "csv", "markdown" and "html".                       *)
(***************************************************************************)
\* String(n) padded with zeros to w digits
RECURSIVE PadStart(_, _)
PadStart(str, w) == IF Len(str) >= w THEN str ELSE PadStart("0" \o str, w)

\* new Date(ms).toISOString() for ms >= 0: the UTC civil date of the day
\* number (days since 1970-01-01) and the time of day
toISOString(ms) ==
  LET days == ms \div 86400000
      rem == ms % 86400000
      z == days + 719468
      era == z \div 146097
      doe == z - era * 146097
      yoe == (doe - doe \div 1460 + doe \div 36524 - doe \div 146096) \div 365
      doy == doe - (365 * yoe + yoe \div 4 - yoe \div 100)
      mp == (5 * doy + 2) \div 153
      d == doy - (153 * mp + 2) \div 5 + 1
      m == IF mp < 10 THEN mp + 3 ELSE mp - 9
      y == yoe + era * 400 + (IF m <= 2 THEN 1 ELSE 0)
  IN PadStart(NatString(y), 4) \o "-" \o PadStart(NatString(m), 2) \o "-"
     \o PadStart(NatString(d), 2) \o "T"
     \o PadStart(NatString(rem \div 3600000), 2) \o ":"
     \o PadStart(NatString((rem % 3600000) \div 60000), 2) \o ":"
     \o PadStart(NatString((rem % 60000) \div 1000), 2) \o "."
     \o PadStart(NatString(rem % 1000), 3) \o "Z"

\* str.replace(/"/g, '""')
RECURSIVE DoubleQuotes(_)
DoubleQuotes(str) ==
  LET k == FirstOf(str, {"\""}, 1)
  IN IF k = 0 THEN str
     ELSE SubSeq(str, 1, k) \o "\"" \o DoubleQuotes(SubSeq(str, k + 1, Len(str)))

escapeCSV(str) ==
  IF includes(str, ",") \/ includes(str, "\"") \/ includes(str, "\n")
  THEN "\"" \o DoubleQuotes(str) \o "\""
  ELSE str

\* `${p.status || ""}`: 0 is falsy
StatusOrEmpty(status) == IF status = 0 THEN "" ELSE NatString(status)

\* the template literal of one csv row
CSVRow(p) ==
  escapeCSV(p.url) \o "," \o escapeCSV(p.domain) \o "," \o StatusOrEmpty(p.status)
    \o "," \o NatString(p.contentSize) \o "," \o toISOString(p.timestamp)

CSVHeader == "url,domain,status,content_size,timestamp\n"

\* p.content.match(/<title[^>]*>([^<]*)<\/title>/i)?.[1]?.trim() || p.url
MarkdownTitle(p) ==
  LET match == TitleTagMatch(p.content)
      text == IF match.found THEN trim(match.group) ELSE ""
  IN IF text # "" THEN text ELSE p.url

\* p.content.replace(/<[^>]+>/g, " ").replace(/\s+/g, " ").trim()
MarkdownText(p) == trim(PlainText(p.content))

\* the template literal of one markdown section
MarkdownSection(p) ==
  LET text == MarkdownText(p)
  IN "## " \o MarkdownTitle(p) \o "\n\n**URL:** " \o p.url \o "\n\n"
     \o Slice(text, 0, MarkdownLen)
     \o (IF Len(text) > MarkdownLen THEN "..." ELSE "")
     \o "\n\n---\n"

\* `<!-- URL: ${p.url} -->\n${p.content}`
HtmlPage(p) == "<!-- URL: " \o p.url \o " -->\n" \o p.content

HtmlDocument(filenamePrefix, htmlPages) ==
  "<!DOCTYPE html><html><head><meta charset=\"utf-8\"><title>" \o filenamePrefix
    \o " Export</title></head><body>\n" \o htmlPages \o "\n</body></html>"

\* type ExportFormat
ExportFormats == {"json", "csv", "markdown", "html"}

\* exportPages(pages, format, filenamePrefix); timestamp is
\* new Date().toISOString().slice(0, 10)
exportPages(pages, format, filenamePrefix, timestamp) ==
  CASE format = "json" ->
         LET data == [i \in DOMAIN pages |-> ExportRecord(pages[i])]
         IN downloadBlob(JSONStringify(data),
                         filenamePrefix \o "-" \o timestamp \o ".json",
                         "application/json")
    [] format = "csv" ->
         LET rows == JoinLines([i \in DOMAIN pages |-> CSVRow(pages[i])], "\n")
         IN downloadBlob(CSVHeader \o rows,
                         filenamePrefix \o "-" \o timestamp \o ".csv",
                         "text/csv")
    [] format = "markdown" ->
         LET lines == [i \in DOMAIN pages |-> MarkdownSection(pages[i])]
         IN downloadBlob(JoinLines(lines, "\n"),
                         filenamePrefix \o "-" \o timestamp \o ".md",
                         "text/markdown")
    [] format = "html" ->
         LET htmlPages == JoinLines([i \in DOMAIN pages |-> HtmlPage(pages[i])],
                                    "\n\n<hr/>\n\n")
         IN downloadBlob(HtmlDocument(filenamePrefix, htmlPages),
                         filenamePrefix \o "-" \o timestamp \o ".html",
                         "text/html")

(***************************************************************************)
(* The state of the KnowledgeBase component and of the store.               *)
(***************************************************************************)
VARIABLES
  store,          \* the page store: domain -> pages in insertion order
  now,            \* the store's clock: the timestamp of the last write
  domains,        \* useState<DomainInfo[]>: the cached domain list
  searchQuery,    \* useState<string>: the text of the search box
  searchResults,  \* useState<StoredPage[]>: the displayed results
  tasks,          \* the async functions suspended at an await, oldest first
  lastEvent,      \* the handler step that ran last
  probe,          \* the pure function applied last, its arguments and result
  exporting,      \* useState(false): an exportAll is running
  exportFormat    \* useState<ExportFormat>("json"): the selected format; the
                  \* handlers below run with the initial selection

vars == <<store, now, domains, searchQuery, searchResults, tasks, lastEvent, probe,
          exporting, exportFormat>>

\* a suspended async function: its kind, its local variables, and for a search
\* two marks of what happened while it was in flight: cleared, a Clear All
\* clicked after the search began has completed; overtaken, a search submitted
\* later has set its results
Task(kind, lowerQuery, todo, results, domain) ==
  [kind |-> kind, lowerQuery |-> lowerQuery, todo |-> todo,
   results |-> results, domain |-> domain, cleared |-> FALSE, overtaken |-> FALSE]

\* loadDomains(), suspended at "await getSavedDomains()"
LoadTask == Task("loadDomains", <<>>, <<>>, <<>>, "")

Event(op, arg) == [op |-> op, arg |-> arg]

NoProbe == [fn |-> "none"]

RemoveAt(seq, k) == SubSeq(seq, 1, k - 1) \o SubSeq(seq, k + 1, Len(seq))

\* tasks are kept oldest first: the searches begun before task k are before it
MarkCleared(ts, k) ==
  [j \in DOMAIN ts |->
     IF j < k /\ ts[j].kind = "search" THEN [ts[j] EXCEPT !.cleared = TRUE] ELSE ts[j]]

MarkOvertaken(ts, k) ==
  [j \in DOMAIN ts |->
     IF j < k /\ ts[j].kind = "search" THEN [ts[j] EXCEPT !.overtaken = TRUE] ELSE ts[j]]

RECURSIVE SumOver(_, _)
SumOver(ds, field) ==
  IF ds = <<>> THEN 0 ELSE Head(ds)[field] + SumOver(Tail(ds), field)

\* a slip: the domains counted, not their pages
totalPagesAsDomainCount == Len(domains)

\* domains.reduce((s, d) => s + d.pageCount, 0)
totalPages == SumOver(domains, "pageCount")

\* domains.reduce((s, d) => s + d.totalSize, 0)
totalSize == SumOver(domains, "totalSize")

(***************************************************************************)
(* Inputs.                                                                  *)
(***************************************************************************)
\* what the search box may hold
Queries == {"", " \t", "cats", "Dogs cats"}

\* what a crawl may deliver: (url, domain, content, status)
CrawlInputs ==
  {[url |-> "https://a.com/1", domain |-> "a.com", status |-> 200,
    content |-> "<title>Cats</title><p>cats are great</p>"],
   [url |-> "https://a.com/2", domain |-> "a.com", status |-> 200,
    content |-> "<title>Dogs</title><p>dogs rule</p>"],
   [url |-> "https://a.com/2", domain |-> "a.com", status |-> 404,
    content |-> "# Cats and dogs\nnot found"],
   [url |-> "https://b.org/1", domain |-> "b.org", status |-> 0,
    content |-> "<h1>Dogs</h1> <p>no CATS here</p>"]}

(***************************************************************************)
(* Handlers.  An async function is one action up to its first await and one *)
(* action per resumption; a store call takes effect when its await resumes. *)
(***************************************************************************)
\* the component mounts on an empty store: useEffect(() => { loadDomains(); })
Init ==
  /\ store = EmptyStore
  /\ now = 0
  /\ domains = <<>>
  /\ searchQuery = ""
  /\ searchResults = <<>>
  /\ tasks = <<LoadTask>>
  /\ lastEvent = Event("mount", "")
  /\ exporting = FALSE
  /\ exportFormat = "json"
  /\ probe = NoProbe

\* SearchBar saves a crawled page and calls onSaveComplete = loadDomains
CrawlSave(in) ==
  /\ now < MaxTime
  /\ Len(tasks) < MaxTasks
  /\ now' = now + 1
  /\ store' = upsertPage(store,
                StoredPage(in.url, in.domain, in.content, in.status, now + 1))
  /\ tasks' = Append(tasks, LoadTask)
  /\ lastEvent' = Event("crawlSave", "")
  /\ UNCHANGED <<domains, searchQuery, searchResults, probe, exporting, exportFormat>>

\* loadDomains resumes: setDomains(await getSavedDomains())
LoadDomainsResume(k) ==
  /\ k \in DOMAIN tasks
  /\ tasks[k].kind = "loadDomains"
  /\ domains' = getSavedDomains(store)
  /\ tasks' = RemoveAt(tasks, k)
  /\ lastEvent' = Event("loadDomains", "")
  /\ UNCHANGED <<store, now, searchQuery, searchResults, probe, exporting, exportFormat>>

\* onChange of the search box: setSearchQuery(e.target.value)
TypeQuery(q) ==
  /\ q # searchQuery
  /\ searchQuery' = q
  /\ lastEvent' = Event("typeQuery", "")
  /\ UNCHANGED <<store, now, domains, searchResults, tasks, probe, exporting, exportFormat>>

\* onSubmit of the search form: search() up to its first await
SearchSubmit ==
  IF trim(searchQuery) = ""
  THEN /\ lastEvent' = Event("searchReturned", searchQuery)
       /\ UNCHANGED <<store, now, domains, searchQuery, searchResults, tasks, probe, exporting, exportFormat>>
  ELSE IF domains = <<>>
  THEN /\ searchResults' = RankedResults(<<>>)
       /\ lastEvent' = Event("searchDone", "")
       /\ UNCHANGED <<store, now, domains, searchQuery, tasks, probe, exporting, exportFormat>>
  ELSE /\ Len(tasks) < MaxTasks
       /\ tasks' = Append(tasks,
            Task("search", LowerQuery(searchQuery),
                 [i \in DOMAIN domains |-> domains[i].domain], <<>>, ""))
       /\ lastEvent' = Event("searchStarted", "")
       /\ UNCHANGED <<store, now, domains, searchQuery, searchResults, probe, exporting, exportFormat>>

\* search resumes from "await getPagesByDomain(domain.domain)": the pages of
\* that domain are scored; after the last domain the results are ranked and set
SearchResume(k) ==
  /\ k \in DOMAIN tasks
  /\ tasks[k].kind = "search"
  /\ LET t == tasks[k]
         pages == getPagesByDomain(store, Head(t.todo))
         results == ScanPages(t.results, pages, t.lowerQuery)
     IN IF Len(t.todo) > 1
        THEN /\ tasks' = [tasks EXCEPT ![k] =
                  [t EXCEPT !.todo = Tail(t.todo), !.results = results]]
             /\ lastEvent' = Event("searchScanned", "")
             /\ UNCHANGED searchResults
        ELSE /\ tasks' = RemoveAt(MarkOvertaken(tasks, k), k)
             /\ searchResults' = RankedResults(results)
             /\ lastEvent' = Event("searchDone", "")
  /\ UNCHANGED <<store, now, domains, searchQuery, probe, exporting, exportFormat>>

\* the Remove button of a listed domain, up to "await clearDomain(d.domain)"
ClearDomainClick(d) ==
  /\ \E i \in DOMAIN domains : domains[i].domain = d
  /\ Len(tasks) < MaxTasks
  /\ tasks' = Append(tasks, Task("clearDomain", <<>>, <<>>, <<>>, d))
  /\ lastEvent' = Event("clearDomainClicked", "")
  /\ UNCHANGED <<store, now, domains, searchQuery, searchResults, probe, exporting, exportFormat>>

\* ... and its resumption: loadDomains()
ClearDomainResume(k) ==
  /\ k \in DOMAIN tasks
  /\ tasks[k].kind = "clearDomain"
  /\ store' = clearDomain(store, tasks[k].domain)
  /\ tasks' = Append(RemoveAt(tasks, k), LoadTask)
  /\ lastEvent' = Event("clearDomain", "")
  /\ UNCHANGED <<now, domains, searchQuery, searchResults, probe, exporting, exportFormat>>

\* the Clear All button (shown when domains.length > 0), up to "await clearAll()"
ClearAllClick ==
  /\ domains # <<>>
  /\ Len(tasks) < MaxTasks
  /\ tasks' = Append(tasks, Task("clearAll", <<>>, <<>>, <<>>, ""))
  /\ lastEvent' = Event("clearAllClicked", "")
  /\ UNCHANGED <<store, now, domains, searchQuery, searchResults, probe, exporting, exportFormat>>

\* ... and its resumption: loadDomains(); setSearchResults([])
ClearAllResume(k) ==
  /\ k \in DOMAIN tasks
  /\ tasks[k].kind = "clearAll"
  /\ store' = clearAll(store)
  /\ tasks' = Append(RemoveAt(MarkCleared(tasks, k), k), LoadTask)
  /\ searchResults' = <<>>
  /\ lastEvent' = Event("clearAll", "")
  /\ UNCHANGED <<now, domains, searchQuery, probe, exporting, exportFormat>>

Next ==
  \/ \E in \in CrawlInputs : CrawlSave(in)
  \/ \E k \in DOMAIN tasks : LoadDomainsResume(k)
  \/ \E q \in Queries : TypeQuery(q)
  \/ SearchSubmit
  \/ \E k \in DOMAIN tasks : SearchResume(k)
  \/ \E d \in DomainSet : ClearDomainClick(d)
  \/ \E k \in DOMAIN tasks : ClearDomainResume(k)
  \/ ClearAllClick
  \/ \E k \in DOMAIN tasks : ClearAllResume(k)

Spec == Init /\ [][Next]_vars

(***************************************************************************)
(* The component with its export handlers, over a store whose calls may     *)
(* fail: a store call whose await resumes either returns or, the substrate  *)
(* being unavailable, rejects.                                              *)
(***************************************************************************)
\* new Date().toISOString().slice(0, 10) on the day of the export
ExportDate == "2024-01-31"

\* loadDomains, "await getSavedDomains()" rejects: caught by "catch {}"
LoadDomainsFail(k) ==
  /\ k \in DOMAIN tasks
  /\ tasks[k].kind = "loadDomains"
  /\ tasks' = RemoveAt(tasks, k)
  /\ lastEvent' = Event("loadDomainsFailed", "")
  /\ UNCHANGED <<store, now, domains, searchQuery, searchResults, probe,
                 exporting, exportFormat>>

\* search, "await getPagesByDomain(...)" rejects: nothing catches it, the
\* promise of search() rejects and onSubmit drops it
SearchFail(k) ==
  /\ k \in DOMAIN tasks
  /\ tasks[k].kind = "search"
  /\ tasks' = RemoveAt(tasks, k)
  /\ lastEvent' = Event("searchRejected", "")
  /\ UNCHANGED <<store, now, domains, searchQuery, searchResults, probe,
                 exporting, exportFormat>>

\* Remove, "await clearDomain(d.domain)" rejects: loadDomains() is not reached
ClearDomainFail(k) ==
  /\ k \in DOMAIN tasks
  /\ tasks[k].kind = "clearDomain"
  /\ tasks' = RemoveAt(tasks, k)
  /\ lastEvent' = Event("clearDomainRejected", "")
  /\ UNCHANGED <<store, now, domains, searchQuery, searchResults, probe,
                 exporting, exportFormat>>

\* Clear All, "await clearAll()" rejects: neither loadDomains() nor
\* setSearchResults([]) is reached
ClearAllFail(k) ==
  /\ k \in DOMAIN tasks
  /\ tasks[k].kind = "clearAll"
  /\ tasks' = RemoveAt(tasks, k)
  /\ lastEvent' = Event("clearAllRejected", "")
  /\ UNCHANGED <<store, now, domains, searchQuery, searchResults, probe,
                 exporting, exportFormat>>

\* what an export leaves behind: the artifact handed to downloadBlob
Exported(pages, format, filenamePrefix) ==
  [fn |-> "exportPages", pages |-> pages, format |-> format,
   out |-> exportPages(pages, format, filenamePrefix, ExportDate)]

\* the Download All button (shown when domains.length > 0, disabled while
\* exporting): exportAll up to its first await
ExportAllClick ==
  /\ domains # <<>>
  /\ ~exporting
  /\ Len(tasks) < MaxTasks
  /\ exporting' = TRUE
  /\ tasks' = Append(tasks,
       Task("exportAll", <<>>, [i \in DOMAIN domains |-> domains[i].domain], <<>>, ""))
  /\ lastEvent' = Event("exportAllClicked", "")
  /\ UNCHANGED <<store, now, domains, searchQuery, searchResults, probe, exportFormat>>

\* exportAll resumes from "await getPagesByDomain(d.domain)"; after the last
\* domain: exportPages(allPages, ...), then finally setExporting(false)
ExportAllResume(k) ==
  /\ k \in DOMAIN tasks
  /\ tasks[k].kind = "exportAll"
  /\ LET t == tasks[k]
         allPages == t.results \o getPagesByDomain(store, Head(t.todo))
     IN IF Len(t.todo) > 1
        THEN /\ tasks' = [tasks EXCEPT ![k] =
                  [t EXCEPT !.todo = Tail(t.todo), !.results = allPages]]
             /\ lastEvent' = Event("exportAllRead", "")
             /\ UNCHANGED <<probe, exporting>>
        ELSE /\ tasks' = RemoveAt(tasks, k)
             /\ probe' = Exported(allPages, exportFormat, "knowledge-base")
             /\ exporting' = FALSE
             /\ lastEvent' = Event("exportAllDone", "")
  /\ UNCHANGED <<store, now, domains, searchQuery, searchResults, exportFormat>>

\* a slip: exportAll without its finally block, a rejection leaves the flag set
ExportAllFailNoFinally(k) ==
  /\ k \in DOMAIN tasks
  /\ tasks[k].kind = "exportAll"
  /\ tasks' = RemoveAt(tasks, k)
  /\ lastEvent' = Event("exportAllRejected", "")
  /\ UNCHANGED <<store, now, domains, searchQuery, searchResults, probe,
                 exporting, exportFormat>>

\* exportAll, "await getPagesByDomain(...)" rejects: finally
\* setExporting(false), then the promise of exportAll() rejects
ExportAllFail(k) ==
  /\ k \in DOMAIN tasks
  /\ tasks[k].kind = "exportAll"
  /\ tasks' = RemoveAt(tasks, k)
  /\ exporting' = FALSE
  /\ lastEvent' = Event("exportAllRejected", "")
  /\ UNCHANGED <<store, now, domains, searchQuery, searchResults, probe, exportFormat>>

\* the Download button of a listed domain: exportDomain up to its await
ExportDomainClick(d) ==
  /\ \E i \in DOMAIN domains : domains[i].domain = d
  /\ Len(tasks) < MaxTasks
  /\ tasks' = Append(tasks, Task("exportDomain", <<>>, <<>>, <<>>, d))
  /\ lastEvent' = Event("exportDomainClicked", "")
  /\ UNCHANGED <<store, now, domains, searchQuery, searchResults, probe,
                 exporting, exportFormat>>

\* ... and its resumption: exportPages(pages, exportFormat, domain)
ExportDomainResume(k) ==
  /\ k \in DOMAIN tasks
  /\ tasks[k].kind = "exportDomain"
  /\ tasks' = RemoveAt(tasks, k)
  /\ probe' = Exported(getPagesByDomain(store, tasks[k].domain), exportFormat,
                       tasks[k].domain)
  /\ lastEvent' = Event("exportDomainDone", "")
  /\ UNCHANGED <<store, now, domains, searchQuery, searchResults,
                 exporting, exportFormat>>

\* exportDomain, "await getPagesByDomain(domain)" rejects
ExportDomainFail(k) ==
  /\ k \in DOMAIN tasks
  /\ tasks[k].kind = "exportDomain"
  /\ tasks' = RemoveAt(tasks, k)
  /\ lastEvent' = Event("exportDomainRejected", "")
  /\ UNCHANGED <<store, now, domains, searchQuery, searchResults, probe,
                 exporting, exportFormat>>

\* the component mounts on a store that holds a page of each domain, with a
\* query in the search box
InitFail ==
  /\ store = upsertPage(upsertPage(EmptyStore,
                StoredPage("https://a.com/1", "a.com",
                           "<title>Cats</title><p>cats are great</p>", 200, 1)),
                StoredPage("https://b.org/1", "b.org",
                           "<h1>Dogs</h1> <p>no CATS here</p>", 0, 2))
  /\ now = 2
  /\ domains = <<>>
  /\ searchQuery = "cats"
  /\ searchResults = <<>>
  /\ tasks = <<LoadTask>>
  /\ lastEvent = Event("mount", "")
  /\ probe = NoProbe
  /\ exporting = FALSE
  /\ exportFormat = "json"

NextFail ==
  \/ \E k \in DOMAIN tasks : LoadDomainsResume(k)
  \/ SearchSubmit
  \/ \E k \in DOMAIN tasks : SearchResume(k)
  \/ \E d \in DomainSet : ClearDomainClick(d)
  \/ \E k \in DOMAIN tasks : ClearDomainResume(k)
  \/ ClearAllClick
  \/ \E k \in DOMAIN tasks : ClearAllResume(k)
  \/ \E k \in DOMAIN tasks : LoadDomainsFail(k)
  \/ \E k \in DOMAIN tasks : SearchFail(k)
  \/ \E k \in DOMAIN tasks : ClearDomainFail(k)
  \/ \E k \in DOMAIN tasks : ClearAllFail(k)
  \/ ExportAllClick
  \/ \E k \in DOMAIN tasks : ExportAllResume(k)
  \/ \E k \in DOMAIN tasks : ExportAllFail(k)
  \/ \E d \in DomainSet : ExportDomainClick(d)
  \/ \E k \in DOMAIN tasks : ExportDomainResume(k)
  \/ \E k \in DOMAIN tasks : ExportDomainFail(k)

SpecFail == InitFail /\ [][NextFail]_vars

\* exportAll, once suspended at an await, is resumed: the store call it waits
\* for settles, by returning or by rejecting, and the event loop then runs the
\* continuation
ExportAllSettles ==
  \E k \in DOMAIN tasks : ExportAllFail(k) \/ ExportAllResume(k)

SpecBusy == InitFail /\ [][NextFail]_vars /\ WF_vars(ExportAllSettles)

(***************************************************************************)
(* The store under the handlers that write it and the one that lists it:   *)
(* crawl saves, Remove, Clear All, loadDomains.                             *)
(***************************************************************************)
NextStore ==
  \/ \E in \in CrawlInputs : CrawlSave(in)
  \/ \E k \in DOMAIN tasks : LoadDomainsResume(k)
  \/ \E d \in DomainSet : ClearDomainClick(d)
  \/ \E k \in DOMAIN tasks : ClearDomainResume(k)
  \/ ClearAllClick
  \/ \E k \in DOMAIN tasks : ClearAllResume(k)

SpecStore == Init /\ [][NextStore]_vars

(***************************************************************************)
(* search as a function of the query and the corpus: the store holds a     *)
(* drawn corpus, the domain list is loaded, the search box holds a drawn   *)
(* query, and only the search form is used.                                *)
(***************************************************************************)
SearchQueries ==
  {"cats", "cats dogs", "cats cats dogs", "Cats DOGS", " cats", "cats ",
   "dogs\tcats  birds", "zebra", " zebra", "a", "  "}

\* the contents the pages of a drawn corpus cycle through
ContentCycles ==
  {<<"cats">>,
   <<"<p>Cats</p>", "Dogs and cats">>,
   <<"dogs", "", "cats", "birds like CATS and DOGS">>,
   <<"birds", "no match">>}

\* how many pages a domain of a drawn corpus holds
BulkSizes == {0, 2, MaxBulk}

BulkPage(d, i, cycle, shift) ==
  StoredPage("https://" \o d \o "/" \o NatString(i), d,
             cycle[((i + shift) % Len(cycle)) + 1], 200, i)

BulkStore(na, nb, cycle) ==
  [d \in DomainSet |->
     IF d = DomainNames[1]
     THEN [i \in 1..na |-> BulkPage(d, i, cycle, 0)]
     ELSE [i \in 1..nb |-> BulkPage(d, i, cycle, 1)]]

InitSearch ==
  /\ \E na \in BulkSizes, nb \in BulkSizes, cycle \in ContentCycles :
       store = BulkStore(na, nb, cycle)
  /\ now = 0
  /\ domains = getSavedDomains(store)
  /\ searchQuery \in SearchQueries
  /\ searchResults = <<>>
  /\ tasks = <<>>
  /\ lastEvent = Event("loadDomains", "")
  /\ exporting = FALSE
  /\ exportFormat = "json"
  /\ probe = NoProbe

NextSearch ==
  \/ SearchSubmit
  \/ \E k \in DOMAIN tasks : SearchResume(k)

SpecSearch == InitSearch /\ [][NextSearch]_vars

(***************************************************************************)
(* getTitle and getSnippet as functions of their arguments: a result card   *)
(* is rendered for a drawn page under a drawn search box text (the card's   *)
(* snippet follows the search box as the user types).                      *)
(***************************************************************************)
RECURSIVE Repeat(_, _)
Repeat(s, n) ==
  IF n = 0 THEN ""
  ELSE IF n = 1 THEN s
  ELSE Repeat(s, n \div 2) \o Repeat(s, n - n \div 2)

\* 96 characters, the term "cats" at index 96, then 180 characters more
LongContent ==
  Repeat("lorem ipsum ", 8) \o "Cats chase dogs. " \o Repeat("dolor sit amet ", 12)

TextContents ==
  {"<title>Cats</title><p>cats are great</p>",
   "# Cats and dogs\nnot found",
   "Intro about dogs\n# Later heading\nbody",
   "# Guide to cats\n<title> </title>",
   "<TITLE lang=\"en\"> Birds </TITLE><p>Dogs</p>\n\n<p>   and  cats </p>",
   "",
   "<title>unclosed <p>cats</p>",
   "#\t\nnext line",
   "<<>> a < b > c",
   LongContent}

TextUrls ==
  {"https://a.com/1", "https://a.com", "http://b.org/docs/x?y=1#z", "/docs/2",
   "a.com/1"}

TextQueries == {"cats", " cats", "Dogs cats", "zebra ", "", " "}

InitText ==
  /\ store = EmptyStore
  /\ now = 0
  /\ domains = <<>>
  /\ searchQuery = ""
  /\ searchResults = <<>>
  /\ tasks = <<>>
  /\ lastEvent = Event("mount", "")
  /\ exporting = FALSE
  /\ exportFormat = "json"
  /\ \E c \in TextContents, u \in TextUrls, q \in TextQueries :
       probe = [fn |-> "input", content |-> c, url |-> u, query |-> q,
                out |-> Returned("")]

\* {getTitle(page.content, page.url)}
RenderTitle ==
  /\ probe.fn # "getTitle"
  /\ probe' = [probe EXCEPT !.fn = "getTitle",
                            !.out = getTitle(probe.content, probe.url)]
  /\ UNCHANGED <<store, now, domains, searchQuery, searchResults, tasks, lastEvent, exporting, exportFormat>>

\* {getSnippet(page.content, searchQuery)}
RenderSnippet ==
  /\ probe.fn # "getSnippet"
  /\ probe' = [probe EXCEPT !.fn = "getSnippet",
                            !.out = getSnippet(probe.content, probe.query)]
  /\ UNCHANGED <<store, now, domains, searchQuery, searchResults, tasks, lastEvent, exporting, exportFormat>>

NextText == RenderTitle \/ RenderSnippet

SpecText == InitText /\ [][NextText]_vars

(***************************************************************************)
(* exportPages as a function of its arguments: a drawn sequence of pages    *)
(* (stored pages, or search results that carry a relevance) is exported.    *)
(***************************************************************************)
\* plain text of MarkdownLen + 5 characters behind a title, and a text that is
\* MarkdownLen characters once trimmed
OverlongContent == "<title>Long</title>" \o Repeat("0123456789", 200) \o " tail"

BrimfulContent == " " \o Repeat("0123456789", 200) \o "\n"

ExportPageSet ==
  {StoredPage("https://a.com/1", "a.com", "<title>Cats</title><p>cats are great</p>", 200, 1),
   StoredPage("https://a.com/2", "a.com", "<title>Dogs</title><p>dogs rule</p>", 200, 2),
   StoredPage("https://a.com/3", "a.com", "say \"hi\",\n{\"k\": [1]}\\n\t", 200, 3),
   StoredPage("https://b.org/q?a=\"x\",b", "b.org", "a, \"b\"", 0, 1700000000),
   StoredPage("https://b.org/empty", "b.org", "", 404, 0),
   WithRelevance(StoredPage("https://a.com/1", "a.com", "Cats\\", 200, 7),
                 [num |-> 1, den |-> 2]),
   StoredPage("https://a.com/4", "a,b\n", "\\", 301, 10),
   StoredPage("https://a.com/5", "a.com", "}\n  },\n  {\n    \"url\": \"x\"", 200, 11),
   StoredPage("https://a.com/6", "a.com", "\\\"", 200, 12),
   StoredPage("https://a.com/7", "a.com", "# Cats and dogs\nnot found", 500, 13)}

\* page sequences with long contents, exported as markdown
LongExports ==
  {<<StoredPage("https://a.com/8", "a.com", OverlongContent, 200, 86400123)>>,
   <<StoredPage("https://a.com/9", "a.com", BrimfulContent, 200, 14),
     StoredPage("https://a.com/2", "a.com", "<title>Dogs</title><p>dogs rule</p>", 200, 2)>>}

RECURSIVE SeqsUpTo(_, _)
SeqsUpTo(S, n) ==
  IF n = 0 THEN {<<>>}
  ELSE SeqsUpTo(S, n - 1)
       \cup {Append(q, x) : q \in {r \in SeqsUpTo(S, n - 1) : Len(r) = n - 1}, x \in S}

\* the (pages, exportFormat) pairs an export is drawn from
ExportInputs ==
  {[pages |-> ps, format |-> f] :
     ps \in SeqsUpTo(ExportPageSet, MaxExport), f \in ExportFormats}
  \cup {[pages |-> ps, format |-> "markdown"] : ps \in LongExports}

InitExport ==
  /\ store = EmptyStore
  /\ now = 0
  /\ domains = <<>>
  /\ searchQuery = ""
  /\ searchResults = <<>>
  /\ tasks = <<>>
  /\ lastEvent = Event("mount", "")
  /\ exporting = FALSE
  /\ exportFormat = "json"
  /\ \E in \in ExportInputs :
       probe = [fn |-> "input", pages |-> in.pages, format |-> in.format,
                out |-> downloadBlob("", "", "")]

\* exportPages(pages, exportFormat, "knowledge-base")
ExportPages ==
  /\ probe.fn = "input"
  /\ probe' = [probe EXCEPT !.fn = "exportPages",
                 !.out = exportPages(probe.pages, probe.format,
                                     "knowledge-base", ExportDate)]
  /\ UNCHANGED <<store, now, domains, searchQuery, searchResults, tasks, lastEvent, exporting, exportFormat>>

NextExport == ExportPages

SpecExport == InitExport /\ [][NextExport]_vars

(***************************************************************************)
(* Vocabulary of the search claims.                                         *)
(***************************************************************************)
\* the distinct non-empty terms of a query: its maximal runs of
\* non-whitespace characters, lower-cased
QueryTerms(q) ==
  LET s == toLowerCase(q)
  IN {SubSeq(s, i, j) : <<i, j>> \in
        {w \in (1..Len(s)) \X (1..Len(s)) :
           /\ w[1] <= w[2]
           /\ \A k \in w[1]..w[2] : ~IsWs(Char(s, k))
           /\ w[1] = 1 \/ IsWs(Char(s, w[1] - 1))
           /\ w[2] = Len(s) \/ IsWs(Char(s, w[2] + 1))}}

\* the terms among terms that are substrings of the lower-cased content
TermsPresent(terms, content) ==
  LET text == toLowerCase(content)
  IN {t \in terms : includes(text, t)}

\* the corpus a search scans: the listed domains in order, each domain's pages
\* in the order getPagesByDomain returns them
RECURSIVE CorpusOf(_)
CorpusOf(ds) ==
  IF ds = <<>> THEN <<>>
  ELSE getPagesByDomain(store, Head(ds).domain) \o CorpusOf(Tail(ds))

Corpus == CorpusOf(domains)

\* where the pages of the results stand in the corpus
ResultPos ==
  LET corpus == Corpus
  IN [i \in DOMAIN searchResults |->
        CHOOSE k \in DOMAIN corpus :
          /\ corpus[k].url = searchResults[i].url
          /\ corpus[k].domain = searchResults[i].domain]

\* the number of terms of the split query found in each page of the corpus,
\* as search counts them
CorpusHits ==
  LET corpus == Corpus
      lowerQuery == LowerQuery(searchQuery)
  IN [k \in DOMAIN corpus |-> Matches(lowerQuery, toLowerCase(corpus[k].content))]

SearchDone == lastEvent.op = "searchDone"

(***************************************************************************)
(* C1: every result's relevance is (distinct query terms present in the     *)
(* lower-cased content) / (distinct query terms), so a query that repeats a *)
(* term scores like the de-duplicated query.  The code counts every element *)
(* of the split query, repeats and empty pieces included.                   *)
(***************************************************************************)
C1_RelevanceIsDistinctRatio ==
  LET terms == QueryTerms(searchQuery)
  IN \A i \in DOMAIN searchResults :
       LET r == searchResults[i]
       IN r.relevance.num * Cardinality(terms)
            = Cardinality(TermsPresent(terms, r.content)) * r.relevance.den

(***************************************************************************)
(* C2: no empty string is a scoring term: a page holding none of the        *)
(* query's words is not returned, and every result scores as under the      *)
(* trimmed query.  The split of a query with leading or trailing whitespace *)
(* holds "", which every page includes.                                     *)
(***************************************************************************)
C2_NoEmptyTerm ==
  LET terms == QueryTerms(searchQuery)
      trimmed == LowerQuery(trim(searchQuery))
  IN \A i \in DOMAIN searchResults :
       LET r == searchResults[i]
       IN /\ TermsPresent(terms, r.content) # {}
          /\ r.relevance.num * Len(trimmed)
               = Matches(trimmed, toLowerCase(r.content)) * r.relevance.den

(***************************************************************************)
(* C3: after a search with an empty or whitespace-only query the search     *)
(* results are empty, whatever an earlier search produced.  The code        *)
(* returns before setSearchResults and the earlier results stay.            *)
(***************************************************************************)
C3_EmptyQueryClearsResults ==
  lastEvent.op = "searchReturned" => searchResults = <<>>

(***************************************************************************)
(* C4: results are in non-increasing order of relevance, and results of     *)
(* equal relevance are in corpus order.                                     *)
(***************************************************************************)
C4_RankedStable ==
  LET pos == ResultPos
  IN \A i \in DOMAIN searchResults : \A j \in DOMAIN searchResults :
       i < j =>
         LET c == CompareRelevance(searchResults[i], searchResults[j])
         IN /\ c <= 0
            /\ c = 0 => pos[i] < pos[j]

\* a finished search whose ranking moved a page ahead of an earlier one and
\* kept two tied pages of different domains in corpus order
C4_Witness ==
  /\ SearchDone
  /\ \E i \in DOMAIN searchResults : \E j \in DOMAIN searchResults :
       /\ i < j
       /\ ResultPos[i] > ResultPos[j]
  /\ \E i \in DOMAIN searchResults : \E j \in DOMAIN searchResults :
       /\ i < j
       /\ CompareRelevance(searchResults[i], searchResults[j]) = 0
       /\ searchResults[i].domain # searchResults[j].domain

(***************************************************************************)
(* C5: a search returns at most 50 results; with more than 50 pages of      *)
(* relevance > 0 it returns exactly 50 and no excluded page has a strictly  *)
(* higher relevance than an included one; otherwise it returns every page   *)
(* of relevance > 0 and no other.                                          *)
(***************************************************************************)
C5_ResultCap ==
  SearchDone =>
    LET hits == CorpusHits
        pos == ResultPos
        matching == {k \in DOMAIN hits : hits[k] > 0}
        included == {pos[i] : i \in DOMAIN searchResults}
    IN /\ Len(searchResults) <= 50
       /\ Cardinality(included) = Len(searchResults)
       /\ included \subseteq matching
       /\ IF Cardinality(matching) > 50
          THEN /\ Len(searchResults) = 50
               /\ \A k \in matching \ included : \A m \in included :
                    hits[k] <= hits[m]
          ELSE included = matching

\* a finished search over more than 50 matching pages of two relevances
C5_Witness ==
  /\ SearchDone
  /\ Cardinality({k \in DOMAIN CorpusHits : CorpusHits[k] > 0}) > 50
  /\ Len(searchResults) = 50
  /\ CompareRelevance(searchResults[1], searchResults[50]) < 0

(***************************************************************************)
(* C6: every result has 0 <= relevance <= 1, and relevance = 1 exactly when *)
(* every distinct query term is a substring of the lower-cased content.     *)
(***************************************************************************)
C6_RelevanceBound ==
  LET terms == QueryTerms(searchQuery)
  IN \A i \in DOMAIN searchResults :
       LET r == searchResults[i]
       IN /\ r.relevance.den > 0
          /\ 0 <= r.relevance.num
          /\ r.relevance.num <= r.relevance.den
          /\ r.relevance.num = r.relevance.den
               <=> TermsPresent(terms, r.content) = terms

\* a search with a repeated term returned a page of relevance 1 and a page of
\* a lower relevance
C6_Witness ==
  /\ SearchDone
  /\ Len(LowerQuery(searchQuery)) > Cardinality(QueryTerms(searchQuery))
  /\ \E i \in DOMAIN searchResults :
       searchResults[i].relevance.num = searchResults[i].relevance.den
  /\ \E i \in DOMAIN searchResults :
       searchResults[i].relevance.num < searchResults[i].relevance.den

(***************************************************************************)
(* Vocabulary of the title and snippet claims.                              *)
(***************************************************************************)
\* the first non-empty whitespace-separated word of a query, lower-cased
FirstWord(q) ==
  LET s == toLowerCase(q)
      i == Min(NonWsAt(s))
      after == {j \in WsAt(s) : j > i}
  IN SubSeq(s, i, IF after = {} THEN Len(s) ELSE Min(after) - 1)

\* the title by strict fallback: the text of the <title> tag, else the text
\* of a level-1 heading that starts the content, else the URL's path
TitleByFallback(content, url) ==
  IF TitleTagMatch(content).found /\ trim(TitleTagMatch(content).group) # ""
  THEN trim(TitleTagMatch(content).group)
  ELSE IF HeadingAt(content, 1).found /\ trim(HeadingAt(content, 1).group) # ""
  THEN trim(HeadingAt(content, 1).group)
  ELSE URLPathname(url).value

\* the snippet around the first occurrence of a term in the plain text
SnippetAround(content, term) ==
  LET text == PlainText(content)
      i == indexOf(toLowerCase(text), term)
      start == IF i - 80 > 0 THEN i - 80 ELSE 0
  IN IF i = -1 THEN Slice(text, 0, 200) \o "..."
     ELSE (IF start > 0 THEN "..." ELSE "") \o Slice(text, start, start + 200)
          \o "..."

(***************************************************************************)
(* C7: getTitle returns the text of the <title> tag if there is one, else   *)
(* the text of a leading level-1 heading, else the URL's path; a heading    *)
(* line that is not leading is not the title.  The code takes a "# " line   *)
(* anywhere in the content, and a blank <title> hides the heading.          *)
(***************************************************************************)
C7_TitleFallbackOrder ==
  (probe.fn = "getTitle" /\ ~URLPathname(probe.url).threw) =>
    probe.out = Returned(TitleByFallback(probe.content, probe.url))

(***************************************************************************)
(* C8: getTitle and getSnippet never raise, whatever the content, the url   *)
(* and the query.  getTitle falls back to new URL(url), which throws on a   *)
(* url that is not absolute.                                                *)
(***************************************************************************)
C8_ExtractionNeverThrows ==
  probe.fn \in {"getTitle", "getSnippet"} => ~probe.out.threw

(***************************************************************************)
(* C9: getSnippet returns the window of the plain text around the first     *)
(* occurrence of the query's first non-empty word (or the first 200         *)
(* characters when it does not occur).  The code takes the first piece of   *)
(* the split query, which is "" when the query starts with whitespace.      *)
(***************************************************************************)
C9_SnippetAroundFirstWord ==
  (probe.fn = "getSnippet" /\ NonWsAt(probe.query) # {}) =>
    probe.out = Returned(SnippetAround(probe.content, FirstWord(probe.query)))

(***************************************************************************)
(* Vocabulary of the export claims: reading an artifact back.               *)
(***************************************************************************)
\* JSON.parse: a parse step returns [ok, val, next], next the position behind
\* what was read
ParseFail == [ok |-> FALSE, val |-> "", next |-> 0]

Parsed(v, n) == [ok |-> TRUE, val |-> v, next |-> n]

\* the position of the first character at or after i that is no whitespace
SkipWs(s, i) ==
  LET at == {j \in NonWsAt(s) : j >= i}
  IN IF at = {} THEN Len(s) + 1 ELSE Min(at)

JSONUnescape(c) ==
  CASE c = "\"" -> "\""
    [] c = "\\" -> "\\"
    [] c = "/" -> "/"
    [] c = "n" -> "\n"
    [] c = "t" -> "\t"
    [] OTHER -> ""

\* the rest of a string literal from position j on, up to its closing quote
RECURSIVE ParseStringBody(_, _)
ParseStringBody(s, j) ==
  LET k == FirstOf(s, {"\"", "\\"}, j)
  IN IF k = 0 THEN ParseFail
     ELSE IF \E i \in j..(k - 1) : Char(s, i) \in {"\n", "\t"} THEN ParseFail
     ELSE IF Char(s, k) = "\"" THEN Parsed(SubSeq(s, j, k - 1), k + 1)
     ELSE IF k + 1 > Len(s) \/ JSONUnescape(Char(s, k + 1)) = "" THEN ParseFail
     ELSE LET rest == ParseStringBody(s, k + 2)
          IN IF ~rest.ok THEN ParseFail
             ELSE Parsed(SubSeq(s, j, k - 1) \o JSONUnescape(Char(s, k + 1))
                         \o rest.val, rest.next)

ParseString(s, i) ==
  IF i <= Len(s) /\ Char(s, i) = "\"" THEN ParseStringBody(s, i + 1)
  ELSE ParseFail

IsDigit(c) == \E d \in 1..10 : Char("0123456789", d) = c

DigitValue(c) == (CHOOSE d \in 1..10 : Char("0123456789", d) = c) - 1

RECURSIVE DigitsValue(_)
DigitsValue(ds) ==
  IF Len(ds) = 0 THEN 0
  ELSE 10 * DigitsValue(SubSeq(ds, 1, Len(ds) - 1)) + DigitValue(Char(ds, Len(ds)))

\* a number literal without sign, fraction or exponent
ParseNumber(s, i) ==
  LET stop == {j \in i..Len(s) : ~IsDigit(Char(s, j))}
      e == IF stop = {} THEN Len(s) + 1 ELSE Min(stop)
  IN IF e = i \/ (e > i + 1 /\ Char(s, i) = "0") THEN ParseFail
     ELSE Parsed(DigitsValue(SubSeq(s, i, e - 1)), e)

ParseValue(s, i) ==
  IF i <= Len(s) /\ Char(s, i) = "\"" THEN ParseString(s, i)
  ELSE ParseNumber(s, i)

\* the members of an object from position i on, up to its closing brace
RECURSIVE ParseMembers(_, _, _)
ParseMembers(s, i, obj) ==
  LET key == ParseString(s, SkipWs(s, i))
      colon == SkipWs(s, key.next)
      val == ParseValue(s, SkipWs(s, colon + 1))
      after == SkipWs(s, val.next)
  IN IF ~key.ok \/ colon > Len(s) \/ Char(s, colon) # ":" THEN ParseFail
     ELSE IF ~val.ok \/ after > Len(s) THEN ParseFail
     ELSE IF Char(s, after) = "}"
          THEN Parsed((key.val :> val.val) @@ obj, after + 1)
     ELSE IF Char(s, after) = ","
          THEN ParseMembers(s, after + 1, (key.val :> val.val) @@ obj)
     ELSE ParseFail

ParseObject(s, i) ==
  IF i > Len(s) \/ Char(s, i) # "{" THEN ParseFail
  ELSE IF SkipWs(s, i + 1) <= Len(s) /\ Char(s, SkipWs(s, i + 1)) = "}"
       THEN Parsed(<<>>, SkipWs(s, i + 1) + 1)
  ELSE ParseMembers(s, i + 1, <<>>)

\* the elements of an array from position i on, up to its closing bracket
RECURSIVE ParseElements(_, _, _)
ParseElements(s, i, arr) ==
  LET el == ParseObject(s, SkipWs(s, i))
      after == SkipWs(s, el.next)
  IN IF ~el.ok \/ after > Len(s) THEN ParseFail
     ELSE IF Char(s, after) = "]" THEN Parsed(Append(arr, el.val), after + 1)
     ELSE IF Char(s, after) = "," THEN ParseElements(s, after + 1, Append(arr, el.val))
     ELSE ParseFail

\* JSON.parse(text) for an array of flat objects: [ok, val]
JSONParse(s) ==
  LET i == SkipWs(s, 1)
      arr == IF i > Len(s) \/ Char(s, i) # "[" THEN ParseFail
             ELSE IF SkipWs(s, i + 1) <= Len(s) /\ Char(s, SkipWs(s, i + 1)) = "]"
                  THEN Parsed(<<>>, SkipWs(s, i + 1) + 1)
             ELSE ParseElements(s, i + 1, <<>>)
  IN IF arr.ok /\ SkipWs(s, arr.next) > Len(s)
     THEN [ok |-> TRUE, val |-> arr.val]
     ELSE [ok |-> FALSE, val |-> <<>>]

(***************************************************************************)
(* C10: the json artifact is an array with exactly one object per input     *)
(* page, in input order, holding the page's url, content, status, domain    *)
(* and timestamp and nothing else (no contentSize, no relevance).           *)
(***************************************************************************)
C10_JsonRoundTrip ==
  (probe.fn = "exportPages" /\ probe.format = "json") =>
    LET parsed == JSONParse(probe.out.content)
    IN /\ parsed.ok
       /\ Len(parsed.val) = Len(probe.pages)
       /\ \A i \in DOMAIN probe.pages :
            /\ DOMAIN parsed.val[i] = {"url", "content", "status", "domain", "timestamp"}
            /\ parsed.val[i].url = probe.pages[i].url
            /\ parsed.val[i].content = probe.pages[i].content
            /\ parsed.val[i].status = probe.pages[i].status
            /\ parsed.val[i].domain = probe.pages[i].domain
            /\ parsed.val[i].timestamp = probe.pages[i].timestamp

\* two different pages were exported, a search result among them and one whose
\* content holds quotes and line breaks
C10_Witness ==
  /\ probe.fn = "exportPages"
  /\ probe.format = "json"
  /\ Len(probe.pages) = 2
  /\ probe.pages[1] # probe.pages[2]
  /\ "relevance" \in DOMAIN probe.pages[1]
  /\ includes(probe.pages[2].content, "\"")
  /\ includes(probe.pages[2].content, "\n")
  /\ JSONParse(probe.out.content).ok

(***************************************************************************)
(* Reading a csv artifact back: records are separated by line breaks,      *)
(* fields by commas; a field in double quotes may hold both, and "" in it   *)
(* is one double quote.                                                     *)
(***************************************************************************)
\* a quoted field from position j on (behind its opening quote): [val, next]
RECURSIVE CSVQuoted(_, _)
CSVQuoted(s, j) ==
  LET k == FirstOf(s, {"\""}, j)
  IN IF k = 0 THEN [val |-> SubSeq(s, j, Len(s)), next |-> Len(s) + 1]
     ELSE IF k + 1 <= Len(s) /\ Char(s, k + 1) = "\""
     THEN LET rest == CSVQuoted(s, k + 2)
          IN [val |-> SubSeq(s, j, k) \o rest.val, next |-> rest.next]
     ELSE [val |-> SubSeq(s, j, k - 1), next |-> k + 1]

CSVField(s, i) ==
  IF i <= Len(s) /\ Char(s, i) = "\"" THEN CSVQuoted(s, i + 1)
  ELSE LET k == FirstOf(s, {",", "\n"}, i)
       IN IF k = 0 THEN [val |-> SubSeq(s, i, Len(s)), next |-> Len(s) + 1]
          ELSE [val |-> SubSeq(s, i, k - 1), next |-> k]

\* the records of s from position i on; a final line break ends the last record
RECURSIVE CSVRecords(_, _, _, _)
CSVRecords(s, i, row, rows) ==
  LET f == CSVField(s, i)
      done == Append(rows, Append(row, f.val))
  IN IF f.next > Len(s) THEN done
     ELSE IF Char(s, f.next) = "," THEN CSVRecords(s, f.next + 1, Append(row, f.val), rows)
     ELSE IF Char(s, f.next) = "\n"
          THEN (IF f.next = Len(s) THEN done ELSE CSVRecords(s, f.next + 1, <<>>, done))
     ELSE <<>>

CSVParse(s) == CSVRecords(s, 1, <<>>, <<>>)

(***************************************************************************)
(* C11: the csv artifact is the header row followed by exactly one row per  *)
(* input page in input order, and every row parses back to the five fields  *)
(* url, domain, status, contentSize and ISO-8601 timestamp of its page; a   *)
(* status of 0 is the field "0".  The code writes `status || ""`, an empty  *)
(* field for status 0.                                                      *)
(***************************************************************************)
C11_CsvRowsParseBack ==
  (probe.fn = "exportPages" /\ probe.format = "csv") =>
    LET rows == CSVParse(probe.out.content)
    IN /\ Len(rows) = Len(probe.pages) + 1
       /\ rows[1] = <<"url", "domain", "status", "content_size", "timestamp">>
       /\ \A i \in DOMAIN probe.pages :
            rows[i + 1] = <<probe.pages[i].url,
                            probe.pages[i].domain,
                            NatString(probe.pages[i].status),
                            NatString(probe.pages[i].contentSize),
                            toISOString(probe.pages[i].timestamp)>>

(***************************************************************************)
(* Vocabulary of the markdown claim.                                        *)
(***************************************************************************)
\* the title of a section: the text of the <title> tag, else the text of a
\* level-1 heading that starts the content, else the page's URL
SectionTitle(p) ==
  IF TitleTagMatch(p.content).found /\ trim(TitleTagMatch(p.content).group) # ""
  THEN trim(TitleTagMatch(p.content).group)
  ELSE IF HeadingAt(p.content, 1).found /\ trim(HeadingAt(p.content, 1).group) # ""
  THEN trim(HeadingAt(p.content, 1).group)
  ELSE p.url

\* the section of a page: heading, URL, the plain text cut to 2000 characters
\* with "..." behind it exactly when it was longer, a horizontal separator
Section(p) ==
  LET text == trim(PlainText(p.content))
  IN "## " \o SectionTitle(p) \o "\n\n**URL:** " \o p.url \o "\n\n"
     \o (IF Len(text) > 2000 THEN SubSeq(text, 1, 2000) \o "..." ELSE text)
     \o "\n\n---\n"

(***************************************************************************)
(* C12: the markdown artifact is one section per input page, in input       *)
(* order: the heading is the <title> text, else the leading level-1         *)
(* heading, else the URL; then the URL, the plain text cut to 2000          *)
(* characters with "..." iff it was longer, and a separator.  The code      *)
(* looks for the <title> tag only and never for a heading.                  *)
(***************************************************************************)
C12_MarkdownSections ==
  (probe.fn = "exportPages" /\ probe.format = "markdown") =>
    probe.out.content
      = JoinLines([i \in DOMAIN probe.pages |-> Section(probe.pages[i])], "\n")

(***************************************************************************)
(* Vocabulary of the store claims.                                          *)
(***************************************************************************)
\* the urls stored under a domain: the distinct (domain, url) pairs of it
UrlsOf(st, d) == {st[d][k].url : k \in DOMAIN st[d]}

\* the sum of contentSize over the pages of domain d with the given urls
RECURSIVE SizeOfUrls(_, _, _)
SizeOfUrls(st, d, urls) ==
  IF urls = {} THEN 0
  ELSE LET u == CHOOSE x \in urls : TRUE
           page == st[d][CHOOSE k \in DOMAIN st[d] : st[d][k].url = u]
       IN page.contentSize + SizeOfUrls(st, d, urls \ {u})

\* the number of distinct (domain, url) pairs stored under the domains ds, and
\* the sum of contentSize over them
RECURSIVE StoredPairs(_, _)
StoredPairs(st, ds) ==
  IF ds = {} THEN 0
  ELSE LET d == CHOOSE x \in ds : TRUE
       IN Cardinality(UrlsOf(st, d)) + StoredPairs(st, ds \ {d})

RECURSIVE StoredSize(_, _)
StoredSize(st, ds) ==
  IF ds = {} THEN 0
  ELSE LET d == CHOOSE x \in ds : TRUE
       IN SizeOfUrls(st, d, UrlsOf(st, d)) + StoredSize(st, ds \ {d})

(***************************************************************************)
(* C13: getSavedDomains has exactly one entry per domain with at least one  *)
(* page, its pageCount the number of stored pages of the domain and its     *)
(* totalSize the sum of their contentSize; and once the domain list has     *)
(* been reloaded, the totals of the UI are the number of distinct           *)
(* (domain, url) pairs stored and the sum of all contentSize.               *)
(***************************************************************************)
C13_AggregateConsistency ==
  LET saved == getSavedDomains(store)
      pairs(d) == Cardinality(UrlsOf(store, d))
      size(d) == SizeOfUrls(store, d, UrlsOf(store, d))
  IN /\ \A d \in DomainSet :
          Cardinality({i \in DOMAIN saved : saved[i].domain = d})
            = (IF UrlsOf(store, d) # {} THEN 1 ELSE 0)
     /\ \A i \in DOMAIN saved :
          /\ saved[i].domain \in DomainSet
          /\ saved[i].pageCount = Len(getPagesByDomain(store, saved[i].domain))
          /\ saved[i].pageCount = pairs(saved[i].domain)
          /\ saved[i].totalSize = size(saved[i].domain)
     /\ lastEvent.op = "loadDomains" =>
          /\ totalPages = StoredPairs(store, DomainSet)
          /\ totalSize = StoredSize(store, DomainSet)

\* the list was reloaded after a page was saved twice under one url, the
\* second time with another content
C13_Witness ==
  /\ lastEvent.op = "loadDomains"
  /\ now = 2
  /\ Len(store["a.com"]) = 1
  /\ store["a.com"][1].timestamp = 2
  /\ store["a.com"][1].status = 404
  /\ store["b.org"] = <<>>
  /\ totalPages = 1
  /\ totalSize = store["a.com"][1].contentSize

(***************************************************************************)
(* C14: when clearDomain(d) completes, getPagesByDomain(d) is empty and d   *)
(* is absent from getSavedDomains, every other domain's pages and aggregate *)
(* are unchanged, and nothing changes if d was absent; when clearAll        *)
(* completes, getSavedDomains is empty and getPagesByDomain is empty for    *)
(* every domain, as in a freshly initialized store.                         *)
(***************************************************************************)
C14_ClearCompleteness ==
  [][/\ lastEvent'.op = "clearDomain" =>
          \E k \in DOMAIN tasks :
            /\ tasks[k].kind = "clearDomain"
            /\ tasks' = Append(RemoveAt(tasks, k), LoadTask)
            /\ LET d == tasks[k].domain
                   before == getSavedDomains(store)
                   after == getSavedDomains(store')
               IN /\ getPagesByDomain(store', d) = <<>>
                  /\ \A i \in DOMAIN after : after[i].domain # d
                  /\ \A e \in DomainSet \ {d} :
                       /\ getPagesByDomain(store', e) = getPagesByDomain(store, e)
                       /\ {after[i] : i \in {j \in DOMAIN after : after[j].domain = e}}
                            = {before[i] : i \in {j \in DOMAIN before : before[j].domain = e}}
                  /\ getPagesByDomain(store, d) = <<>> => store' = store
     /\ lastEvent'.op = "clearAll" =>
          /\ getSavedDomains(store') = <<>>
          /\ \A d \in DomainSet : getPagesByDomain(store', d) = <<>>
          /\ store' = EmptyStore
    ]_vars

\* Remove has completed for a.com while b.org keeps its page
C14_Witness ==
  /\ lastEvent.op = "clearDomain"
  /\ store["a.com"] = <<>>
  /\ store["b.org"] # <<>>
  /\ \E i \in DOMAIN domains : domains[i].domain = "a.com"

(***************************************************************************)
(* C15: a store call that fails never ends its caller with an uncaught      *)
(* failure, and the caller shows the state of an empty store: the domain    *)
(* list is empty after a failed loadDomains and the search results are      *)
(* empty after a failed search.  loadDomains swallows the failure and keeps *)
(* the earlier list; search, the clear handlers, exportAll and exportDomain *)
(* have no catch and reject.                                                *)
(***************************************************************************)
C15_UnavailableIsEmptyStore ==
  /\ lastEvent.op \notin {"searchRejected", "clearDomainRejected", "clearAllRejected",
                          "exportAllRejected", "exportDomainRejected"}
  /\ lastEvent.op = "loadDomainsFailed" => domains = <<>>
  /\ lastEvent.op = "searchRejected" => searchResults = <<>>

(***************************************************************************)
(* Vocabulary of the interleaving claims.                                   *)
(***************************************************************************)
\* the domains holding a page that matches the split query
MatchingDomains(st, lowerQuery) ==
  {d \in DomainSet :
     \E k \in DOMAIN st[d] : Matches(lowerQuery, toLowerCase(st[d][k].content)) > 0}

\* the step is the submit of a search (it starts a search or, with no domain
\* listed, sets the results at once)
IsSearchSubmit ==
  /\ lastEvent'.op \in {"searchStarted", "searchDone"}
  /\ Len(tasks') >= Len(tasks)

\* the step is the end of the search that is task k
IsSearchEnd(k) ==
  /\ k \in DOMAIN tasks
  /\ tasks[k].kind = "search"
  /\ lastEvent'.op = "searchDone"
  /\ tasks' = RemoveAt(MarkOvertaken(tasks, k), k)

\* the store calls in flight that write the store
WritersInFlight == {k \in DOMAIN tasks : tasks[k].kind \in {"clearDomain", "clearAll"}}

(***************************************************************************)
(* C16: a search scans every domain that holds a matching page in the store *)
(* at the moment the search is started, whether or not the domain list was  *)
(* reloaded since the page was saved.  The code scans the domains of the    *)
(* cached list only.                                                        *)
(***************************************************************************)
C16_SearchScansStore ==
  [][IsSearchSubmit =>
       LET scanned == IF lastEvent'.op = "searchStarted"
                      THEN {tasks'[Len(tasks')].todo[i] :
                              i \in DOMAIN tasks'[Len(tasks')].todo}
                      ELSE {}
       IN MatchingDomains(store, LowerQuery(searchQuery)) \subseteq scanned
    ]_vars

(***************************************************************************)
(* C17: at most one store call that writes the store (clearDomain,          *)
(* clearAll) is in flight in every reachable state.  Nothing disables the   *)
(* Remove and Clear All buttons while such a call is awaited.               *)
(***************************************************************************)
C17_SingleWriter == Cardinality(WritersInFlight) <= 1

(***************************************************************************)
(* C18: whenever no operation is in flight, every displayed result is a     *)
(* page that is still in the store.  The Remove handler leaves the results  *)
(* of the removed domain on display.                                        *)
(***************************************************************************)
C18_ResultsAreStored ==
  tasks = <<>> =>
    \A i \in DOMAIN searchResults :
      searchResults[i].url \in UrlsOf(store, searchResults[i].domain)

(***************************************************************************)
(* C19: once Clear All has completed and the searches that were in flight   *)
(* when it was clicked have finished, the results are empty: the last such  *)
(* search to finish after the clear, on a store that is still empty, leaves *)
(* no results.  A search that read a domain before the clear sets the pages *)
(* it found there.                                                          *)
(***************************************************************************)
C19_ClearAllLeavesNoResults ==
  [][\A k \in DOMAIN tasks :
       (/\ IsSearchEnd(k)
        /\ tasks[k].cleared
        /\ store = EmptyStore
        /\ \A j \in DOMAIN tasks' : ~(tasks'[j].kind = "search" /\ tasks'[j].cleared))
       => searchResults' = <<>>
    ]_vars

(***************************************************************************)
(* C20: when searches overlap, the results on display once all of them have *)
(* finished are those of the search submitted last: a search that finishes  *)
(* last although a later one has already set its results does not replace   *)
(* them.  Every search sets the results when it finishes.                   *)
(***************************************************************************)
C20_LastSubmittedWins ==
  [][\A k \in DOMAIN tasks :
       (/\ IsSearchEnd(k)
        /\ tasks[k].overtaken
        /\ \A j \in DOMAIN tasks' : tasks'[j].kind # "search")
       => searchResults' = searchResults
    ]_vars

(***************************************************************************)
(* C21: the exporting flag is a faithful busy indicator for Download All.   *)
(* exporting is true exactly while an exportAll is in flight; at most one   *)
(* exportAll is in flight at any time, the button being disabled while      *)
(* exporting is true; and exporting is eventually reset to false after      *)
(* every exportAll, whether its store reads return or reject.               *)
(***************************************************************************)
ExportAllInFlight == {k \in DOMAIN tasks : tasks[k].kind = "exportAll"}

C21_BusyIndicator ==
  /\ [](exporting <=> ExportAllInFlight # {})
  /\ [](Cardinality(ExportAllInFlight) <= 1)
  /\ [](exporting => <>(~exporting /\ ExportAllInFlight = {}))

\* an exportAll has just been rejected and the flag is down again, after an
\* earlier exportAll had handed its file to the browser, while other handlers
\* are still in flight
C21_Witness ==
  /\ lastEvent.op = "exportAllRejected"
  /\ ~exporting
  /\ probe.fn = "exportPages"
  /\ probe.out.filename = "knowledge-base-" \o ExportDate \o ".json"
  /\ tasks # <<>>

=============================================================================
